---- MODULE Spec2Model ----
(***************************************************************************)
(* Instant-runoff tally of the RankedChoice Slack app:                     *)
(* calculate_irv_winner (src/app.py:557-616), stepped through its loop.    *)
(*   Spec         one invocation on every bounded ballot set               *)
(*   SpecTests    one invocation on the elections of src/test_app.py       *)
(*   SpecCeiling  the loop with rounds already recorded, up to the ceiling *)
(*   SpecSheet    one invocation on single-choice elections with up to     *)
(*                MaxSheetOptions options, the ballots held in piles       *)
(*   SpecPair     two invocations whose steps interleave                   *)
(* and the handlers of the app over its two tables (src/database.py):      *)
(*   SpecApp      handler runs on pool threads, one database call a step   *)
(*   SpecVoting   the same, from the states of an open poll with ballots   *)
(***************************************************************************)
EXTENDS Integers, Sequences, FiniteSets, TLC

\* ---------------------------------------------------------------- bounds
\* Largest number of ballots in the mapping handed to the tally, when the
\* voters rank up to MaxBallotLen options.
MaxBallots == 4
\* Longest ranking a voter submits.
MaxBallotLen == 3
\* Largest number of ballots when every voter ranks exactly one option
\* (the elections that run through several rounds into exhaustion).
MaxSingleChoiceBallots == 6
\* Option ids on the ballots.
Candidates == {"A", "B", "C"}
\* How many recorded rounds below the ceiling the loop states of SpecCeiling
\* start from.
CeilingWindow == 40
\* Largest number of ballots when two invocations tally the same ballot set.
MaxTwiceBallots == 2
\* Largest number of ballots (one option on each) of each of two
\* invocations on independent ballot sets.
MaxPairBallots == 3
\* Largest number of ballots (of one or two options) whose every order is
\* tallied again to compare the winners.
MaxReorderedBallots == 4
\* Most options of an election in which every voter names one option, held
\* as a tally sheet in SpecSheet.
MaxSheetOptions == 1003
\* Largest number of handler runs (requests Slack delivers) in SpecApp.
MaxHandlerRuns == 4
\* Largest number of handler runs while a poll is open, in SpecVoting.
MaxVotingRuns == 2
\* Channels, users and option ids of the polls in SpecApp.
Channels == {"c1"}
Users == {"u1", "u2"}
PollOptions == {"A", "B"}
\* Threads of the listener pool that run handlers at the same time.
Threads == {"t1", "t2"}

\* ------------------------------------------------------- program constants
\* src/app.py:615  if len(rounds) > 1000
RoundCeiling == 1000
\* Python's None (src/app.py:575).
None == "None"

VARIABLES
    rankings,        \* the caller's mapping, as list(rankings.values())
    ballots,         \* working copy (src/app.py:570)
    rounds,          \* recorded snapshots (src/app.py:571)
    all_candidates,  \* src/app.py:578
    counts,          \* src/app.py:584
    total_votes,     \* src/app.py:589
    eliminated,      \* the to_eliminate set of every round so far (src/app.py:605)
    winner,          \* first component of the returned tuple
    pc,              \* position in the function
    exit,            \* which return / raise ended the call
    other,           \* the same, as a record, of a second invocation
    elections,       \* table elections, one row per channel_id
    ballot_table,    \* table ballots, one row per (message_ts, user_id)
    handlers,        \* per pool thread: the handler it runs, its locals
    next_ts,         \* the ts Slack gives the next posted prompt
    runs             \* handler runs Slack has yet to start

\* The state of the (first) invocation.
invocation == <<rankings, ballots, rounds, all_candidates, counts, total_votes,
                eliminated, winner, pc, exit>>

\* The database and the handler runs.
app == <<elections, ballot_table, handlers, next_ts, runs>>

\* What no step of the first invocation touches.
outside == <<other, app>>

vars == <<invocation, outside>>

\* ------------------------------------------------------------ sequences
Range(s) == {s[i] : i \in DOMAIN s}

NoDuplicates(s) == \A i, j \in DOMAIN s : i # j => s[i] # s[j]

\* A ballot: option ids in preference order, deduplicated by the ballot
\* collection (src/app.py:450-452), possibly empty.
BallotKinds ==
    {b \in UNION {[1..n -> Candidates] : n \in 0..MaxBallotLen} : NoDuplicates(b)}

CandidateIndex(c) == IF c = "A" THEN 1 ELSE IF c = "B" THEN 2 ELSE 3

RECURSIVE BallotCode(_)
BallotCode(b) ==
    IF b = <<>> THEN 0
    ELSE CandidateIndex(Head(b)) + 4 * BallotCode(Tail(b))

SingleChoiceKinds == {<<c>> : c \in Candidates}

\* The tally never reads the voter ids (it takes rankings.values()), and the
\* order of the values is erased by the shuffle before it is recorded, so
\* the inputs are enumerated up to the order of the voters: one list per
\* multiset of ballots.
RECURSIVE SortedLists(_, _)
SortedLists(n, kinds) ==
    IF n = 0 THEN {<<>>}
    ELSE UNION {{<<b>> \o rest :
                    rest \in SortedLists(n - 1,
                        {k \in kinds : BallotCode(b) <= BallotCode(k)})}
                : b \in kinds}

BallotSets ==
    UNION ({SortedLists(n, BallotKinds) : n \in 0..MaxBallots}
           \cup {SortedLists(n, SingleChoiceKinds) : n \in 0..MaxSingleChoiceBallots})

\* ------------------------------------------------- steps of the function
\* for row in ballots: for vote in row: all_candidates.add(vote)
AllCandidates(bs) == UNION {Range(bs[i]) : i \in DOMAIN bs}

\* Counting bug: the last entry of each ballot is counted (ballot[-1]).
RECURSIVE CountFirstChoices_LastEntry(_, _, _)
CountFirstChoices_LastEntry(bs, i, cnt) ==
    IF i > Len(bs) THEN cnt
    ELSE IF bs[i] # <<>>
         THEN CountFirstChoices_LastEntry(bs, i + 1,
                  [cnt EXCEPT ![bs[i][Len(bs[i])]] = cnt[bs[i][Len(bs[i])]] + 1])
         ELSE CountFirstChoices_LastEntry(bs, i + 1, cnt)

\* counts = Counter({candidate: 0 ...}); for ballot in ballots:
\*     if ballot: counts[ballot[0]] += 1
RECURSIVE CountFirstChoices(_, _, _)
CountFirstChoices(bs, i, cnt) ==
    IF i > Len(bs) THEN cnt
    ELSE IF bs[i] # <<>>
         THEN CountFirstChoices(bs, i + 1,
                                [cnt EXCEPT ![bs[i][1]] = cnt[bs[i][1]] + 1])
         ELSE CountFirstChoices(bs, i + 1, cnt)

FirstChoiceCounts(bs) ==
    CountFirstChoices(bs, 1, [c \in AllCandidates(bs) |-> 0])

\* sum(counts.values())
RECURSIVE SumOver(_, _)
SumOver(cnt, S) ==
    IF S = {} THEN 0
    ELSE LET c == CHOOSE x \in S : TRUE
         IN  cnt[c] + SumOver(cnt, S \ {c})

SumCounts(cnt) == SumOver(cnt, DOMAIN cnt)

\* Comparison bug: exactly half counts as a majority (>=).
IsMajority_AtLeastHalf(count, total) == 2 * count >= total

\* Comparison bug: a third of the votes passes the check
\* (count > total_votes / 3).
IsMajority_OverAThird(count, total) == 3 * count > total

\* count > total_votes / 2 : Python's true division, so the comparison is
\* with the exact half (k or k + 0.5), i.e. 2 * count > total_votes.
IsMajority(count, total) == 2 * count > total

\* min(counts.values())
MinCount(cnt) ==
    CHOOSE m \in Range(cnt) : \A c \in DOMAIN cnt : m <= cnt[c]

\* Selection bug: the candidates with the most first choices are removed
\* (max(counts.values())).
ToEliminate_Strongest(cnt) ==
    {c \in DOMAIN cnt : \A d \in DOMAIN cnt : cnt[d] <= cnt[c]}

\* Tie bug: only one of the candidates tied for the minimum is removed.
ToEliminate_OnlyOne(cnt) ==
    {CHOOSE c \in DOMAIN cnt : \A d \in DOMAIN cnt : cnt[c] <= cnt[d]}

\* Selection bug: the comparison is strict (count < min_count), nobody is
\* removed.
ToEliminate_BelowMinimum(cnt) == {c \in DOMAIN cnt : cnt[c] < MinCount(cnt)}

\* Selection bug: candidates without a first-choice vote are passed over,
\* the minimum is taken among the others.
ToEliminate_AmongVoted(cnt) ==
    {c \in DOMAIN cnt :
        /\ cnt[c] > 0
        /\ \A d \in DOMAIN cnt : cnt[d] > 0 => cnt[c] <= cnt[d]}

\* {c for c, count in counts.items() if count == min_count}
ToEliminate(cnt) == {c \in DOMAIN cnt : cnt[c] = MinCount(cnt)}

\* ballot[:] = [c for c in ballot if c not in to_eliminate]
RemoveEliminated(ballot, elim) ==
    SelectSeq(ballot, LAMBDA c : c \notin elim)

\* Exhaustion bug: ballots left empty are dropped from the list.
EliminateFromAll_DropExhausted(bs, elim) ==
    SelectSeq([i \in DOMAIN bs |-> SelectSeq(bs[i], LAMBDA c : c \notin elim)],
              LAMBDA b : b # <<>>)

\* for ballot in ballots: ballot[:] = ...
EliminateFromAll(bs, elim) ==
    [i \in DOMAIN bs |-> RemoveEliminated(bs[i], elim)]

\* shuffled_ballots = copy.deepcopy(ballots); random.shuffle(shuffled_ballots)
\* : every reordering of the list is a possible value.
RemoveAt(s, i) == SubSeq(s, 1, i - 1) \o SubSeq(s, i + 1, Len(s))

FirstIndexOf(s, v) == CHOOSE i \in DOMAIN s : s[i] = v /\ \A j \in 1..(i - 1) : s[j] # v

\* Shuffle bug: the snapshot is recorded in the order of the working list.
Shuffles_Unshuffled(bs) == {bs}

\* The distinct orders of the list: equal ballots are interchangeable.
RECURSIVE Shuffles(_)
Shuffles(bs) ==
    IF bs = <<>> THEN {<<>>}
    ELSE UNION {{<<v>> \o rest : rest \in Shuffles(RemoveAt(bs, FirstIndexOf(bs, v)))}
                : v \in Range(bs)}

\* {ballot[0] for ballot in original_ballots}: indexing an empty ballot
\* raises IndexError before any choice is made (and so does random.choice
\* of an empty list).
HasEmptyBallot(rk) == \E i \in DOMAIN rk : rk[i] = <<>>

\* Tie-break bug: any ranked candidate of the original ballots may be drawn.
OriginalFirstChoices_AnyRank(rk) == UNION {Range(rk[i]) : i \in DOMAIN rk}

OriginalFirstChoices(rk) == {rk[i][1] : i \in DOMAIN rk}

\* Copy bug: ballots = list(rankings.values()) shares the caller's lists,
\* so the slice assignment of the elimination rewrites them.
CallersBallots_Shared(rk, elim) == EliminateFromAll(rk, elim)

\* The caller's lists after `ballot[:] = ...` (src/app.py:609-610) ran on
\* the working ballots: these are copy.deepcopy(...) of the caller's
\* (src/app.py:570), other objects, so the caller's lists are as they were.
CallersBallots(rk, elim) == rk

\* Ceiling bug: the comparison is >=, the error comes one round early.
TooManyRounds_AtCeiling(n) == n >= RoundCeiling

\* if len(rounds) > 1000
TooManyRounds(n) == n > RoundCeiling

\* Scope bug: rounds is one module-level list, every call appends to it.
TraceAfterOtherAppend_ModuleLevel(own, snapshot) == Append(own, snapshot)

\* rounds = [] (src/app.py:571) is a list of this call; the append of
\* another call (src/app.py:614) goes to that call's own list.
TraceAfterOtherAppend(own, snapshot) == own

\* Guard bug: the test is one an empty list never passes (ballots is None).
NoBallots_IsNone(bs) == FALSE

\* if len(ballots) == 0
NoBallots(bs) == Len(bs) = 0

\* A second invocation that has not been called.
NotCalled ==
    [rankings |-> <<>>, ballots |-> <<>>, rounds |-> <<>>, all_candidates |-> {},
     counts |-> <<>>, total_votes |-> 0, eliminated |-> <<>>, winner |-> None,
     pc |-> "idle", exit |-> "running"]

\* ------------------------------------------------------------ the database
\* A channel without a row in elections (get_active_election returns None).
\* A row is written whole, either new with the ts of its own prompt or as
\* the copy that was read (src/app.py:224-230, 293-294, 406-407), so its
\* title and options are those its message_ts was stored with.
NoElectionRow == [exists |-> FALSE, is_active |-> FALSE, message_ts |-> 0]

\* A (message_ts, user_id) without a row in ballots.
NoBallotRow == [exists |-> FALSE, rankings |-> <<>>, is_submitted |-> FALSE]

\* The ts values of the prompts posted: every start_voting run gets a new one.
ElectionIds == 1..MaxHandlerRuns

\* SELECT ... FROM elections WHERE channel_id = ?
get_active_election(els, channel_id) == els[channel_id]

\* INSERT OR REPLACE INTO elections
set_active_election(els, channel_id, session) ==
    [els EXCEPT ![channel_id] = session]

\* SELECT title, options, channel_id FROM elections WHERE message_ts = ? AND
\* is_active: the channel_id of the rows found (none: the method returns None).
get_vote(els, message_ts) ==
    {ch \in Channels :
        els[ch].exists /\ els[ch].message_ts = message_ts /\ els[ch].is_active}

\* Query bug: the condition is_submitted = 1 (src/database.py:112) is
\* missing, so drafts are selected as well.
get_ballots_WithDrafts(tbl, message_ts) ==
    [u \in {v \in Users : tbl[<<message_ts, v>>].exists}
        |-> tbl[<<message_ts, u>>].rankings]

\* SELECT user_id, rankings FROM ballots WHERE message_ts = ? AND
\* is_submitted = 1, as the dict user_id -> rankings.
get_ballots(tbl, message_ts) ==
    [u \in {v \in Users : /\ tbl[<<message_ts, v>>].exists
                          /\ tbl[<<message_ts, v>>].is_submitted}
        |-> tbl[<<message_ts, u>>].rankings]

\* SELECT rankings ... WHERE message_ts = ? AND user_id = ?; the caller's
\* `or []` (src/app.py:447) turns the None of a missing row into [].
get_user_ballot(tbl, message_ts, user_id) ==
    IF tbl[<<message_ts, user_id>>].exists
    THEN tbl[<<message_ts, user_id>>].rankings
    ELSE <<>>

\* SELECT is_submitted ...: False when there is no row.
is_ballot_submitted(tbl, message_ts, user_id) ==
    /\ tbl[<<message_ts, user_id>>].exists
    /\ tbl[<<message_ts, user_id>>].is_submitted

\* INSERT OR REPLACE INTO ballots
set_ballot(tbl, message_ts, user_id, rankings_, is_submitted) ==
    [tbl EXCEPT ![<<message_ts, user_id>>] =
        [exists |-> TRUE, rankings |-> rankings_, is_submitted |-> is_submitted]]

\* UPDATE ballots SET is_submitted = 1 WHERE ...: no row, no change.
submit_ballot(tbl, message_ts, user_id) ==
    IF tbl[<<message_ts, user_id>>].exists
    THEN [tbl EXCEPT ![<<message_ts, user_id>>].is_submitted = TRUE]
    ELSE tbl

\* DELETE FROM ballots WHERE ...
clear_ballot(tbl, message_ts, user_id) ==
    [tbl EXCEPT ![<<message_ts, user_id>>] = NoBallotRow]

\* SELECT message_ts, user_id, rankings, is_submitted ...
get_ballot(tbl, message_ts, user_id) == tbl[<<message_ts, user_id>>]

\* list(rankings.values()) of a dict of ballots. The order of the values is
\* the order of the rows; no result of the tally depends on it.
RECURSIVE Values(_)
Values(d) ==
    IF DOMAIN d = {} THEN <<>>
    ELSE CHOOSE vs \in {<<d[u]>> \o Values([v \in DOMAIN d \ {u} |-> d[v]]) :
                          u \in {CHOOSE w \in DOMAIN d : TRUE}} : TRUE

\* The first components calculate_irv_winner can return for the working
\* ballots bs of the rankings rk ("IndexError": it raises).
RECURSIVE IrvWinners(_, _)
IrvWinners(rk, bs) ==
    IF NoBallots(rk) THEN {None}
    ELSE UNION {UNION {
        IF total = 0
        THEN IF HasEmptyBallot(rk) \/ OriginalFirstChoices(rk) = {}
             THEN {"IndexError"}
             ELSE OriginalFirstChoices(rk)
        ELSE IF \E c \in DOMAIN cnt : IsMajority(cnt[c], total)
        THEN {c \in DOMAIN cnt : IsMajority(cnt[c], total)}
        ELSE UNION {IrvWinners(rk, next) :
                       next \in {EliminateFromAll(bs, ToEliminate(cnt))}}
        : total \in {SumCounts(cnt)}} : cnt \in {FirstChoiceCounts(bs)}}

\* calculate_irv_winner(session_ballots)
TallyResults(session_ballots) ==
    UNION {IrvWinners(rk, rk) : rk \in {Values(session_ballots)}}

\* --------------------------------------------------------- handler runs
\* A pool thread that runs nothing; also the shape of a run's record: the
\* request, the position, the locals, and how the run ended.
Idle ==
    [kind |-> "none", pc |-> "idle", user_id |-> "-", channel_id |-> "-",
     message_ts |-> 0, option |-> "-", form |-> "-",
     active_election |-> NoElectionRow,
     session_ballots |-> <<>>, current_rankings |-> <<>>,
     outcome |-> "-", result |-> "-"]

\* What the start form of a start_voting request holds: everything, or
\* what makes one of the checks of src/app.py:122-192 fail.
StartForms ==
    {"complete", "no_view_state", "no_channel", "no_title", "no_options",
     "one_option"}

\* The requests Slack can deliver: the home-tab buttons carry a channel
\* (start_voting the start form), the ballot modal the ts of a prompt that
\* was posted, the user who acts and, for select_option, the option of the
\* button; a submit_rankings action carries the ts and the channel of the
\* message its button is in.
Requests(posted) ==
    {[Idle EXCEPT !.kind = "start_voting", !.pc = "get_active_election",
                  !.channel_id = ch, !.form = f] :
        ch \in Channels, f \in StartForms}
    \cup {[Idle EXCEPT !.kind = k, !.pc = "get_active_election", !.channel_id = ch] :
            k \in {"stop_voting", "show_results", "cancel"}, ch \in Channels}
    \cup {[Idle EXCEPT !.kind = "select_option", !.pc = "get_vote", !.user_id = u,
                       !.message_ts = ts, !.option = o] :
            u \in Users, ts \in posted, o \in PollOptions}
    \cup {[Idle EXCEPT !.kind = k, !.pc = "get_vote", !.user_id = u,
                       !.message_ts = ts] :
            k \in {"clear_ballot", "ballot_modal"}, u \in Users, ts \in posted}
    \cup {[Idle EXCEPT !.kind = "submit_rankings", !.pc = "is_ballot_submitted",
                       !.user_id = u, !.message_ts = ts, !.channel_id = ch] :
            u \in Users, ts \in posted, ch \in Channels}

\* The record of a run that ended: its request and its outcome.
Ended(h, outcome) ==
    [Idle EXCEPT !.kind = h.kind, !.pc = "done", !.user_id = h.user_id,
                 !.channel_id = h.channel_id, !.message_ts = h.message_ts,
                 !.option = h.option, !.form = h.form, !.outcome = outcome]

\* Thread t is at position p of a handler of kind k.
At(t, k, p) == handlers[t].kind = k /\ handlers[t].pc = p

\* The state before any request.
AppNotStarted ==
    /\ elections = [ch \in Channels |-> NoElectionRow]
    /\ ballot_table = [key \in ElectionIds \X Users |-> NoBallotRow]
    /\ handlers = [t \in Threads |-> Idle]
    /\ next_ts = 1
    /\ runs = MaxHandlerRuns


\* ------------------------------------------------------------------ Init
Init ==
    /\ rankings \in BallotSets
    /\ ballots = <<>>
    /\ rounds = <<>>
    /\ all_candidates = {}
    /\ counts = <<>>
    /\ total_votes = 0
    /\ eliminated = <<>>
    /\ winner = None
    /\ pc = "call"
    /\ exit = "running"
    /\ other = NotCalled
    /\ AppNotStarted

\* Trace bug: the submitted ballots are recorded as a first snapshot
\* (rounds = [ballots]).
Call_RecordsInitial ==
    /\ pc = "call"
    /\ ballots' = rankings
    /\ rounds' = <<rankings>>
    /\ IF NoBallots(rankings)
       THEN /\ winner' = None
            /\ pc' = "returned"
            /\ exit' = "no_ballots"
       ELSE /\ pc' = "count"
            /\ UNCHANGED <<winner, exit>>
    /\ UNCHANGED <<rankings, all_candidates, counts, total_votes, eliminated>>
    /\ UNCHANGED outside

\* src/app.py:569-575
Call ==
    /\ pc = "call"
    /\ ballots' = rankings
    /\ rounds' = <<>>
    /\ IF NoBallots(rankings)
       THEN /\ winner' = None
            /\ pc' = "returned"
            /\ exit' = "no_ballots"
       ELSE /\ pc' = "count"
            /\ UNCHANGED <<winner, exit>>
    /\ UNCHANGED <<rankings, all_candidates, counts, total_votes, eliminated>>
    /\ UNCHANGED outside

\* src/app.py:577-589
Count ==
    /\ pc = "count"
    /\ all_candidates' = AllCandidates(ballots)
    /\ counts' = FirstChoiceCounts(ballots)
    /\ total_votes' = SumCounts(FirstChoiceCounts(ballots))
    /\ pc' = "decide"
    /\ UNCHANGED <<rankings, ballots, rounds, eliminated, winner, exit>>
    /\ UNCHANGED outside

\* src/app.py:590-595
TieBreak ==
    /\ pc = "decide"
    /\ total_votes = 0
    /\ IF HasEmptyBallot(rankings) \/ OriginalFirstChoices(rankings) = {}
       THEN /\ pc' = "raised"
            /\ exit' = "IndexError"
            /\ UNCHANGED winner
       ELSE /\ \E c \in OriginalFirstChoices(rankings) : winner' = c
            /\ pc' = "returned"
            /\ exit' = "tie_break"
    /\ UNCHANGED <<rankings, ballots, rounds, all_candidates, counts,
                   total_votes, eliminated>>
    /\ UNCHANGED outside

\* Order bug: the elimination and its snapshot run before the majority
\* check returns.
Majority_AfterElimination ==
    /\ pc = "decide"
    /\ total_votes # 0
    /\ \E c \in DOMAIN counts :
          /\ IsMajority(counts[c], total_votes)
          /\ winner' = c
    /\ eliminated' = Append(eliminated, ToEliminate(counts))
    /\ ballots' = EliminateFromAll(ballots, ToEliminate(counts))
    /\ rounds' = Append(rounds, EliminateFromAll(ballots, ToEliminate(counts)))
    /\ pc' = "returned"
    /\ exit' = "majority"
    /\ UNCHANGED <<rankings, all_candidates, counts, total_votes>>
    /\ UNCHANGED outside

\* src/app.py:597-601
Majority ==
    /\ pc = "decide"
    /\ total_votes # 0
    /\ \E c \in DOMAIN counts :
          /\ IsMajority(counts[c], total_votes)
          /\ winner' = c
    /\ pc' = "returned"
    /\ exit' = "majority"
    /\ UNCHANGED <<rankings, ballots, rounds, all_candidates, counts,
                   total_votes, eliminated>>
    /\ UNCHANGED outside

\* Snapshot bug: the copy is taken before the candidates are removed.
Eliminate_SnapshotBefore ==
    /\ pc = "decide"
    /\ total_votes # 0
    /\ ~ \E c \in DOMAIN counts : IsMajority(counts[c], total_votes)
    /\ eliminated' = Append(eliminated, ToEliminate(counts))
    /\ ballots' = EliminateFromAll(ballots, ToEliminate(counts))
    /\ \E shuffled_ballots \in Shuffles(ballots) :
          rounds' = Append(rounds, shuffled_ballots)
    /\ IF TooManyRounds(Len(rounds) + 1)
       THEN /\ pc' = "raised"
            /\ exit' = "infinite_loop"
       ELSE /\ pc' = "count"
            /\ UNCHANGED exit
    /\ rankings' = CallersBallots(rankings, ToEliminate(counts))
    /\ UNCHANGED <<all_candidates, counts, total_votes, winner>>
    /\ UNCHANGED outside

\* src/app.py:603-616
Eliminate ==
    /\ pc = "decide"
    /\ total_votes # 0
    /\ ~ \E c \in DOMAIN counts : IsMajority(counts[c], total_votes)
    /\ eliminated' = Append(eliminated, ToEliminate(counts))
    /\ ballots' = EliminateFromAll(ballots, ToEliminate(counts))
    /\ \E shuffled_ballots \in Shuffles(EliminateFromAll(ballots, ToEliminate(counts))) :
          rounds' = Append(rounds, shuffled_ballots)
    /\ IF TooManyRounds(Len(rounds) + 1)
       THEN /\ pc' = "raised"
            /\ exit' = "infinite_loop"
       ELSE /\ pc' = "count"
            /\ UNCHANGED exit
    /\ rankings' = CallersBallots(rankings, ToEliminate(counts))
    /\ UNCHANGED <<all_candidates, counts, total_votes, winner>>
    /\ UNCHANGED outside

Next == Call \/ Count \/ TieBreak \/ Majority \/ Eliminate

Spec == Init /\ [][Next]_vars

\* ------------------------------------------- the elections of src/test_app.py
\* rankings of each test, as list(rankings.values()) in insertion order.
EmptyElection == <<>>

NoVotesLeftElection == <<<<"A", "B">>, <<"B", "A">>, <<"C", "A">>>>

FirstRoundMajorityElection ==
    <<<<"A", "B", "C">>, <<"A", "C", "B">>, <<"A", "B", "C">>,
      <<"B", "A", "C">>, <<"C", "B", "A">>>>

MajorityAfterEliminationElection ==
    <<<<"A", "B", "C">>, <<"B", "A", "C">>, <<"B", "C", "A">>,
      <<"C", "A", "B">>, <<"C", "B", "A">>>>

MultipleRoundsElection ==
    <<<<"A", "B", "C", "D">>, <<"B", "A", "D", "C">>, <<"D", "C", "A", "B">>,
      <<"D", "C", "B", "A">>, <<"A", "C", "B", "D">>>>

CondorcetElection ==
    <<<<"A", "B", "C">>, <<"A", "B", "C">>,
      <<"C", "B", "A">>, <<"C", "B", "A">>, <<"C", "B", "A">>>>

BurlingtonElection ==
    <<<<"Wright", "Montroll", "Kiss">>, <<"Wright", "Montroll", "Kiss">>,
      <<"Wright", "Montroll", "Kiss">>, <<"Wright", "Kiss", "Montroll">>,
      <<"Montroll", "Kiss", "Wright">>, <<"Montroll", "Kiss", "Wright">>,
      <<"Kiss", "Montroll", "Wright">>, <<"Kiss", "Montroll", "Wright">>,
      <<"Kiss", "Montroll", "Wright">>>>

TestElections ==
    {EmptyElection, NoVotesLeftElection, FirstRoundMajorityElection,
     MajorityAfterEliminationElection, MultipleRoundsElection,
     CondorcetElection, BurlingtonElection}

InitTests ==
    /\ rankings \in TestElections
    /\ ballots = <<>>
    /\ rounds = <<>>
    /\ all_candidates = {}
    /\ counts = <<>>
    /\ total_votes = 0
    /\ eliminated = <<>>
    /\ winner = None
    /\ pc = "call"
    /\ exit = "running"
    /\ other = NotCalled
    /\ AppNotStarted

SpecTests == InitTests /\ [][Next]_vars

\* ------------------------------------------------- the loop at the ceiling
\* Two voters, one option each, no majority: the loop has to eliminate.
StalledElections ==
    {rk \in SortedLists(2, SingleChoiceKinds) : rk[1] # rk[2]}

\* The top of the while loop (src/app.py:577) with n rounds on record, each
\* of which removed nobody. No call is in such a state for n > 0 (every
\* round removes an option); these are the looping states the ceiling of
\* src/app.py:615 is written for, with the comparison seen at the ceiling
\* on two ballots. SpecSheet has the call that gets to the ceiling.
InitCeiling ==
    /\ rankings \in StalledElections
    /\ ballots = rankings
    /\ \E n \in (RoundCeiling - CeilingWindow)..RoundCeiling :
          /\ rounds = [k \in 1..n |-> rankings]
          /\ eliminated = [k \in 1..n |-> {}]
    /\ all_candidates = {}
    /\ counts = <<>>
    /\ total_votes = 0
    /\ winner = None
    /\ pc = "count"
    /\ exit = "running"
    /\ other = NotCalled
    /\ AppNotStarted

NextCeiling == Count \/ Eliminate \/ TieBreak

SpecCeiling == InitCeiling /\ [][NextCeiling]_vars

\* ------------------------------------------ an election with many options
\* An election in which every voter names exactly one option, with the
\* options numbered 1..n, as its tally sheet: sheet[c] voters hold the
\* ballot [c]. list(rankings.values()) is, up to the order of the voters,
\* pile 1, then pile 2, ..., pile c being sheet[c] equal ballots.
\* Option c alone on c ballots:
Staircase(n) == [c \in 1..n |-> c]

\* The sheets of up to three options with one or two voters each (among
\* them the election without a ballot), and the largest staircase.
SheetElections ==
    UNION {[1..n -> 1..2] : n \in 0..3} \cup {Staircase(MaxSheetOptions)}

\* The working ballots as piles: piles[c] is the ballot every voter of pile
\* c holds now, [c] at the call (src/app.py:570) and [] once c is removed.
PilesOf(sheet) == [c \in DOMAIN sheet |-> <<c>>]

\* The list of ballots that the piles stand for.
RECURSIVE PileList(_, _, _)
PileList(sheet, piles, c) ==
    IF c = 0 THEN <<>>
    ELSE PileList(sheet, piles, c - 1) \o [k \in 1..sheet[c] |-> piles[c]]

\* all_candidates (src/app.py:578-581): the entries of the ballots, each
\* ballot having one entry or none.
SheetCandidates(piles) ==
    {piles[p][1] : p \in {q \in DOMAIN piles : piles[q] # <<>>}}

\* counts (src/app.py:584-587): the ballots whose first entry is c are
\* the sheet[c] ballots of pile c.
SheetCounts(sheet, piles) == [c \in SheetCandidates(piles) |-> sheet[c]]

\* sum(counts.values()), added up over the options lo..hi by halves.
RECURSIVE SheetSum(_, _, _)
SheetSum(cnt, lo, hi) ==
    IF lo > hi THEN 0
    ELSE IF lo = hi THEN (IF lo \in DOMAIN cnt THEN cnt[lo] ELSE 0)
    ELSE SheetSum(cnt, lo, (lo + hi) \div 2)
         + SheetSum(cnt, (lo + hi) \div 2 + 1, hi)

\* The least of a non-empty set of numbers.
LeastOf(S) == CHOOSE m \in S : \A x \in S : m <= x

\* min(counts.values()) over the options lo..hi, by halves; `top` (a number
\* no count exceeds) where none of lo..hi has a count.
RECURSIVE SheetMin(_, _, _, _)
SheetMin(cnt, top, lo, hi) ==
    IF lo > hi THEN top
    ELSE IF lo = hi THEN (IF lo \in DOMAIN cnt THEN cnt[lo] ELSE top)
    ELSE LeastOf({SheetMin(cnt, top, lo, (lo + hi) \div 2),
                  SheetMin(cnt, top, (lo + hi) \div 2 + 1, hi)})

\* {ballot[0] for ballot in original_ballots} (src/app.py:593): every
\* voter of the sheet named an option.
SheetFirstChoices(sheet) == {c \in DOMAIN sheet : sheet[c] > 0}

InitSheet ==
    /\ rankings \in SheetElections
    /\ ballots = <<>>
    /\ rounds = <<>>
    /\ all_candidates = {}
    /\ counts = <<>>
    /\ total_votes = 0
    /\ eliminated = <<>>
    /\ winner = None
    /\ pc = "call"
    /\ exit = "running"
    /\ other = NotCalled
    /\ AppNotStarted

\* src/app.py:569-575
CallSheet ==
    /\ pc = "call"
    /\ ballots' = PilesOf(rankings)
    /\ rounds' = <<>>
    /\ IF NoBallots(PilesOf(rankings))
       THEN /\ winner' = None
            /\ pc' = "returned"
            /\ exit' = "no_ballots"
       ELSE /\ pc' = "count"
            /\ UNCHANGED <<winner, exit>>
    /\ UNCHANGED <<rankings, all_candidates, counts, total_votes, eliminated>>
    /\ UNCHANGED outside

\* src/app.py:577-589
CountSheet ==
    /\ pc = "count"
    /\ all_candidates' = SheetCandidates(ballots)
    /\ counts' = SheetCounts(rankings, ballots)
    /\ total_votes' = SheetSum(counts', 1, Len(ballots))
    /\ pc' = "decide"
    /\ UNCHANGED <<rankings, ballots, rounds, eliminated, winner, exit>>
    /\ UNCHANGED outside

\* src/app.py:590-595
TieBreakSheet ==
    /\ pc = "decide"
    /\ total_votes = 0
    /\ \E c \in SheetFirstChoices(rankings) : winner' = c
    /\ pc' = "returned"
    /\ exit' = "tie_break"
    /\ UNCHANGED <<rankings, ballots, rounds, all_candidates, counts,
                   total_votes, eliminated>>
    /\ UNCHANGED outside

\* The snapshots of the piles that `recorded` stands for. A snapshot is
\* held as the options its removal emptied the piles of: the k-th snapshot
\* is the piles of the call without the options of recorded[1..k]. The
\* order random.shuffle gives the copied list is not held.
SheetSnapshots(sheet, recorded) ==
    [k \in DOMAIN recorded |->
        EliminateFromAll(PilesOf(sheet), UNION {recorded[j] : j \in 1..k})]

\* src/app.py:603-616, rounds.append(shuffled_ballots) as the entry of
\* SheetSnapshots.
EliminateSheet ==
    /\ pc = "decide"
    /\ total_votes # 0
    /\ ~ \E c \in DOMAIN counts : IsMajority(counts[c], total_votes)
    /\ \E min_count \in {SheetMin(counts, total_votes, 1, Len(ballots))} :
       \E to_eliminate \in {{c \in DOMAIN counts : counts[c] = min_count}} :
          /\ eliminated' = Append(eliminated, to_eliminate)
          /\ ballots' = EliminateFromAll(ballots, to_eliminate)
          /\ rounds' = Append(rounds, to_eliminate)
    /\ IF TooManyRounds(Len(rounds) + 1)
       THEN /\ pc' = "raised"
            /\ exit' = "infinite_loop"
       ELSE /\ pc' = "count"
            /\ UNCHANGED exit
    /\ UNCHANGED <<rankings, all_candidates, counts, total_votes, winner>>
    /\ UNCHANGED outside

NextSheet == CallSheet \/ CountSheet \/ TieBreakSheet \/ Majority \/ EliminateSheet

SpecSheet == InitSheet /\ [][NextSheet]_vars

\* On the small sheets, what the steps of SpecSheet hold is what the
\* operators of the tally give on the list of ballots the piles stand for.
SheetAgreesWithList ==
    (Len(rankings) <= 3 /\ pc = "decide") =>
        LET list == PileList(rankings, ballots, Len(ballots))
        IN  /\ all_candidates = AllCandidates(list)
            /\ counts = FirstChoiceCounts(list)
            /\ total_votes = SumCounts(counts)
            /\ total_votes # 0 =>
                   /\ SheetMin(counts, total_votes, 1, Len(ballots)) = MinCount(counts)
                   /\ PileList(rankings, EliminateFromAll(ballots, ToEliminate(counts)),
                               Len(ballots))
                          = EliminateFromAll(list, ToEliminate(counts))
            /\ rounds # <<>> =>
                   SheetSnapshots(rankings, rounds)[Len(rounds)] = ballots
            /\ SheetFirstChoices(rankings) = OriginalFirstChoices(
                   PileList(rankings, PilesOf(rankings), Len(rankings)))

\* ------------------------------------------------ two invocations at once
\* The ballot sets two invocations are both given.
TwiceBallotSets == UNION {SortedLists(n, BallotKinds) : n \in 0..MaxTwiceBallots}

\* The ballot sets of invocations that are each given their own.
PairBallotSets == UNION {SortedLists(n, SingleChoiceKinds) : n \in 0..MaxPairBallots}

\* Either both invocations are given the same ballot set, or each its own.
PairInputs ==
    {<<rk, rk>> : rk \in TwiceBallotSets} \cup (PairBallotSets \X PairBallotSets)

InitPair ==
    /\ AppNotStarted
    /\ \E input \in PairInputs :
          /\ rankings = input[1]
          /\ other = [NotCalled EXCEPT !.rankings = input[2], !.pc = "call"]
    /\ ballots = <<>>
    /\ rounds = <<>>
    /\ all_candidates = {}
    /\ counts = <<>>
    /\ total_votes = 0
    /\ eliminated = <<>>
    /\ winner = None
    /\ pc = "call"
    /\ exit = "running"

\* src/app.py:569-575, second invocation
OtherCall ==
    /\ other.pc = "call"
    /\ other' = IF NoBallots(other.rankings)
                THEN [other EXCEPT !.ballots = other.rankings, !.rounds = <<>>,
                                   !.winner = None, !.pc = "returned",
                                   !.exit = "no_ballots"]
                ELSE [other EXCEPT !.ballots = other.rankings, !.rounds = <<>>,
                                   !.pc = "count"]
    /\ UNCHANGED <<invocation, app>>

\* src/app.py:577-589, second invocation
OtherCount ==
    /\ other.pc = "count"
    /\ other' = [other EXCEPT
                    !.all_candidates = AllCandidates(other.ballots),
                    !.counts = FirstChoiceCounts(other.ballots),
                    !.total_votes = SumCounts(FirstChoiceCounts(other.ballots)),
                    !.pc = "decide"]
    /\ UNCHANGED <<invocation, app>>

\* src/app.py:590-595, second invocation
OtherTieBreak ==
    /\ other.pc = "decide"
    /\ other.total_votes = 0
    /\ IF HasEmptyBallot(other.rankings) \/ OriginalFirstChoices(other.rankings) = {}
       THEN other' = [other EXCEPT !.pc = "raised", !.exit = "IndexError"]
       ELSE \E c \in OriginalFirstChoices(other.rankings) :
                other' = [other EXCEPT !.winner = c, !.pc = "returned",
                                       !.exit = "tie_break"]
    /\ UNCHANGED <<invocation, app>>

\* src/app.py:597-601, second invocation
OtherMajority ==
    /\ other.pc = "decide"
    /\ other.total_votes # 0
    /\ \E c \in DOMAIN other.counts :
          /\ IsMajority(other.counts[c], other.total_votes)
          /\ other' = [other EXCEPT !.winner = c, !.pc = "returned",
                                    !.exit = "majority"]
    /\ UNCHANGED <<invocation, app>>

\* src/app.py:603-616, second invocation
OtherEliminate ==
    /\ other.pc = "decide"
    /\ other.total_votes # 0
    /\ ~ \E c \in DOMAIN other.counts : IsMajority(other.counts[c], other.total_votes)
    /\ \E shuffled_ballots \in
            Shuffles(EliminateFromAll(other.ballots, ToEliminate(other.counts))) :
          /\ other' = [other EXCEPT
                  !.eliminated = Append(@, ToEliminate(other.counts)),
                  !.ballots = EliminateFromAll(@, ToEliminate(other.counts)),
                  !.rounds = Append(@, shuffled_ballots),
                  !.rankings = CallersBallots(@, ToEliminate(other.counts)),
                  !.pc = IF TooManyRounds(Len(other.rounds) + 1)
                         THEN "raised" ELSE "count",
                  !.exit = IF TooManyRounds(Len(other.rounds) + 1)
                           THEN "infinite_loop" ELSE @]
          /\ rounds' = TraceAfterOtherAppend(rounds, shuffled_ballots)
    /\ UNCHANGED <<rankings, ballots, all_candidates, counts, total_votes,
                   eliminated, winner, pc, exit, app>>

NextPair ==
    \/ Call \/ Count \/ TieBreak \/ Majority \/ Eliminate
    \/ OtherCall \/ OtherCount \/ OtherTieBreak \/ OtherMajority \/ OtherEliminate

SpecPair == InitPair /\ [][NextPair]_vars

\* ------------------------------------------------------ the app's handlers
InitApp ==
    /\ AppNotStarted
    /\ rankings = <<>>
    /\ ballots = <<>>
    /\ rounds = <<>>
    /\ all_candidates = {}
    /\ counts = <<>>
    /\ total_votes = 0
    /\ eliminated = <<>>
    /\ winner = None
    /\ pc = "idle"
    /\ exit = "running"
    /\ other = NotCalled

\* Slack delivers a request and a free thread of the pool starts its handler.
Dispatch ==
    /\ runs > 0
    /\ \E t \in Threads :
          /\ handlers[t].pc \in {"idle", "done"}
          /\ \E request \in Requests(1..(next_ts - 1)) :
                handlers' = [handlers EXCEPT ![t] = request]
    /\ runs' = runs - 1
    /\ UNCHANGED <<elections, ballot_table, next_ts, invocation, other>>

\* Validation bug: the test for fewer than two options (src/app.py:186) is
\* missing.
FormRejected_NoOptionCount(form) == form \notin {"complete", "one_option"}

\* The checks of the start form (src/app.py:122-192): one of them fails.
FormRejected(form) == form # "complete"

\* handle_start_voting, src/app.py:118-210: the checks of the form, which
\* read nothing stored, then the check for an active election.
StartVotingCheck ==
    \E t \in Threads :
        /\ At(t, "start_voting", "get_active_election")
        /\ LET active_election == get_active_election(elections, handlers[t].channel_id)
           IN  handlers' = [handlers EXCEPT ![t] =
                   IF FormRejected(handlers[t].form)
                   THEN Ended(@, "rejected")
                   ELSE IF active_election.exists /\ active_election.is_active
                   THEN Ended(@, "already_active")
                   ELSE [@ EXCEPT !.pc = "chat_postMessage"]]
        /\ UNCHANGED <<elections, ballot_table, next_ts, runs, invocation, other>>

\* handle_start_voting, src/app.py:212-223: the prompt is posted and Slack
\* gives it its ts; nothing is stored yet.
StartVotingPost ==
    \E t \in Threads :
        /\ At(t, "start_voting", "chat_postMessage")
        /\ next_ts \in ElectionIds
        /\ next_ts' = next_ts + 1
        /\ handlers' = [handlers EXCEPT ![t] =
               [@ EXCEPT !.pc = "set_active_election", !.message_ts = next_ts]]
        /\ UNCHANGED <<elections, ballot_table, runs, invocation, other>>

\* handle_start_voting, src/app.py:224-234: the election of the posted
\* prompt is stored as the channel's row.
StartVotingStore ==
    \E t \in Threads :
        /\ At(t, "start_voting", "set_active_election")
        /\ elections' = set_active_election(elections, handlers[t].channel_id,
               [exists |-> TRUE, is_active |-> TRUE,
                message_ts |-> handlers[t].message_ts])
        /\ handlers' = [handlers EXCEPT ![t] = Ended(@, "started")]
        /\ UNCHANGED <<ballot_table, next_ts, runs, invocation, other>>

\* handle_stop_voting, src/app.py:246-254
StopVotingElection ==
    \E t \in Threads :
        /\ At(t, "stop_voting", "get_active_election")
        /\ LET active_election == get_active_election(elections, handlers[t].channel_id)
           IN  handlers' = [handlers EXCEPT ![t] =
                   IF ~ active_election.exists \/ ~ active_election.is_active
                   THEN Ended(@, "no_active_session")
                   ELSE [@ EXCEPT !.pc = "get_ballots",
                                  !.active_election = active_election,
                                  !.message_ts = active_election.message_ts]]
        /\ UNCHANGED <<elections, ballot_table, next_ts, runs, invocation, other>>

\* handle_stop_voting, src/app.py:257-262
StopVotingBallots ==
    \E t \in Threads :
        /\ At(t, "stop_voting", "get_ballots")
        /\ LET session_ballots == get_ballots(ballot_table, handlers[t].message_ts)
           IN  handlers' = [handlers EXCEPT ![t] =
                   IF DOMAIN session_ballots = {}
                   THEN Ended(@, "no_ballots")
                   ELSE [@ EXCEPT !.pc = "calculate_irv_winner",
                                  !.session_ballots = session_ballots]]
        /\ UNCHANGED <<elections, ballot_table, next_ts, runs, invocation, other>>

\* handle_stop_voting, src/app.py:265-298
StopVotingClose ==
    \E t \in Threads :
        /\ At(t, "stop_voting", "calculate_irv_winner")
        /\ \E result \in TallyResults(handlers[t].session_ballots) :
              IF result = "IndexError"
              THEN /\ handlers' = [handlers EXCEPT ![t] = Ended(@, "IndexError")]
                   /\ UNCHANGED elections
              ELSE /\ handlers' = [handlers EXCEPT ![t] =
                          [Ended(@, "final_result") EXCEPT
                              !.result = result,
                              !.session_ballots = handlers[t].session_ballots]]
                   /\ elections' = set_active_election(elections,
                          handlers[t].channel_id,
                          [handlers[t].active_election EXCEPT !.is_active = FALSE])
        /\ UNCHANGED <<ballot_table, next_ts, runs, invocation, other>>

\* handle_show_results, src/app.py:310-320
ShowResultsElection ==
    \E t \in Threads :
        /\ At(t, "show_results", "get_active_election")
        /\ LET active_election == get_active_election(elections, handlers[t].channel_id)
           IN  handlers' = [handlers EXCEPT ![t] =
                   IF ~ active_election.exists \/ ~ active_election.is_active
                   THEN Ended(@, "no_active_session")
                   ELSE [@ EXCEPT !.pc = "get_ballots",
                                  !.active_election = active_election,
                                  !.message_ts = active_election.message_ts]]
        /\ UNCHANGED <<elections, ballot_table, next_ts, runs, invocation, other>>

\* Copy bug: the lines of handle_stop_voting that close the poll
\* (src/app.py:293-294) are in handle_show_results as well.
ShowResultsTally_ClosesPoll ==
    \E t \in Threads :
        /\ At(t, "show_results", "get_ballots")
        /\ LET session_ballots == get_ballots(ballot_table, handlers[t].message_ts)
           IN  IF DOMAIN session_ballots = {}
               THEN /\ handlers' = [handlers EXCEPT ![t] = Ended(@, "no_ballots")]
                    /\ UNCHANGED elections
               ELSE /\ \E result \in TallyResults(session_ballots) :
                          handlers' = [handlers EXCEPT ![t] =
                              [Ended(@, IF result = "IndexError" THEN "IndexError"
                                        ELSE "current_leader") EXCEPT
                                  !.result = result,
                                  !.session_ballots = session_ballots]]
                    /\ elections' = set_active_election(elections,
                           handlers[t].channel_id,
                           [handlers[t].active_election EXCEPT !.is_active = FALSE])
        /\ UNCHANGED <<ballot_table, next_ts, runs, invocation, other>>

\* handle_show_results, src/app.py:323-354: nothing is read from the
\* database after get_ballots, and nothing is written.
ShowResultsTally ==
    \E t \in Threads :
        /\ At(t, "show_results", "get_ballots")
        /\ LET session_ballots == get_ballots(ballot_table, handlers[t].message_ts)
           IN  IF DOMAIN session_ballots = {}
               THEN handlers' = [handlers EXCEPT ![t] = Ended(@, "no_ballots")]
               ELSE \E result \in TallyResults(session_ballots) :
                        handlers' = [handlers EXCEPT ![t] =
                            [Ended(@, IF result = "IndexError" THEN "IndexError"
                                      ELSE "current_leader") EXCEPT
                                !.result = result,
                                !.session_ballots = session_ballots]]
        /\ UNCHANGED <<elections, ballot_table, next_ts, runs, invocation, other>>

\* handle_cancel, src/app.py:396-403
CancelElection ==
    \E t \in Threads :
        /\ At(t, "cancel", "get_active_election")
        /\ LET active_election == get_active_election(elections, handlers[t].channel_id)
           IN  handlers' = [handlers EXCEPT ![t] =
                   IF ~ active_election.exists \/ ~ active_election.is_active
                   THEN Ended(@, "no_active_session")
                   ELSE [@ EXCEPT !.pc = "set_active_election",
                                  !.active_election = active_election]]
        /\ UNCHANGED <<elections, ballot_table, next_ts, runs, invocation, other>>

\* Cleanup bug: cancelling also deletes the ballots of the election.
CancelClose_ClearsBallots ==
    \E t \in Threads :
        /\ At(t, "cancel", "set_active_election")
        /\ elections' = set_active_election(elections, handlers[t].channel_id,
               [handlers[t].active_election EXCEPT !.is_active = FALSE])
        /\ ballot_table' = [key \in DOMAIN ballot_table |->
               IF key[1] = handlers[t].active_election.message_ts
               THEN NoBallotRow ELSE ballot_table[key]]
        /\ handlers' = [handlers EXCEPT ![t] = Ended(@, "cancelled")]
        /\ UNCHANGED <<next_ts, runs, invocation, other>>

\* handle_cancel, src/app.py:405-420
CancelClose ==
    \E t \in Threads :
        /\ At(t, "cancel", "set_active_election")
        /\ elections' = set_active_election(elections, handlers[t].channel_id,
               [handlers[t].active_election EXCEPT !.is_active = FALSE])
        /\ handlers' = [handlers EXCEPT ![t] = Ended(@, "cancelled")]
        /\ UNCHANGED <<ballot_table, next_ts, runs, invocation, other>>

\* vote = db.get_vote(message_ts); vote["channel_id"]: a TypeError when the
\* prompt is not one of an active election (src/app.py:431-432, 524-525,
\* 708-709).
VoteLookup(t, kind, next_pc) ==
    /\ At(t, kind, "get_vote")
    /\ handlers' = [handlers EXCEPT ![t] =
           IF get_vote(elections, handlers[t].message_ts) = {}
           THEN Ended(@, "TypeError")
           ELSE [@ EXCEPT !.pc = next_pc,
                          !.channel_id =
                              CHOOSE ch \in get_vote(elections, handlers[t].message_ts) : TRUE]]
    /\ UNCHANGED <<elections, ballot_table, next_ts, runs, invocation, other>>

\* if db.is_ballot_submitted(message_ts, user_id): ... return
\* (src/app.py:436-444, 487-496, 528-535)
SubmittedCheck(t, kind, next_pc) ==
    /\ At(t, kind, "is_ballot_submitted")
    /\ handlers' = [handlers EXCEPT ![t] =
           IF is_ballot_submitted(ballot_table, handlers[t].message_ts, handlers[t].user_id)
           THEN Ended(@, "already_submitted")
           ELSE [@ EXCEPT !.pc = next_pc]]
    /\ UNCHANGED <<elections, ballot_table, next_ts, runs, invocation, other>>

\* handle_option_selection, src/app.py:431-433
SelectVote == \E t \in Threads : VoteLookup(t, "select_option", "is_ballot_submitted")

\* handle_option_selection, src/app.py:436-444
SelectSubmitted == \E t \in Threads : SubmittedCheck(t, "select_option", "get_user_ballot")

\* Copy bug: the membership test of src/app.py:450 never finds the option.
AlreadyRanked_Never(selected_option_id, current_rankings) == FALSE

\* selected_option_id in current_rankings, src/app.py:450
AlreadyRanked(selected_option_id, current_rankings) ==
    \E i \in DOMAIN current_rankings : current_rankings[i] = selected_option_id

\* handle_option_selection, src/app.py:447-452
SelectRead ==
    \E t \in Threads :
        /\ At(t, "select_option", "get_user_ballot")
        /\ LET current_rankings ==
                   get_user_ballot(ballot_table, handlers[t].message_ts, handlers[t].user_id)
           IN  handlers' = [handlers EXCEPT ![t] =
                   IF AlreadyRanked(handlers[t].option, current_rankings)
                   THEN Ended(@, "already_ranked")
                   ELSE [@ EXCEPT !.pc = "set_ballot",
                                  !.current_rankings = current_rankings]]
        /\ UNCHANGED <<elections, ballot_table, next_ts, runs, invocation, other>>

\* handle_option_selection, src/app.py:455-473. The election row read at
\* line 460 exists (get_vote found it and no row is ever deleted), and the
\* read changes nothing.
SelectWrite ==
    \E t \in Threads :
        /\ At(t, "select_option", "set_ballot")
        /\ ballot_table' = set_ballot(ballot_table, handlers[t].message_ts,
               handlers[t].user_id,
               Append(handlers[t].current_rankings, handlers[t].option), FALSE)
        /\ handlers' = [handlers EXCEPT ![t] = Ended(@, "ranked")]
        /\ UNCHANGED <<elections, next_ts, runs, invocation, other>>

\* handle_clear_rankings, src/app.py:524-525
ClearVote == \E t \in Threads : VoteLookup(t, "clear_ballot", "is_ballot_submitted")

\* handle_clear_rankings, src/app.py:528-535
ClearSubmitted == \E t \in Threads : SubmittedCheck(t, "clear_ballot", "clear_ballot")

\* handle_clear_rankings, src/app.py:538-555
ClearDelete ==
    \E t \in Threads :
        /\ At(t, "clear_ballot", "clear_ballot")
        /\ ballot_table' = clear_ballot(ballot_table, handlers[t].message_ts,
               handlers[t].user_id)
        /\ handlers' = [handlers EXCEPT ![t] = Ended(@, "cleared")]
        /\ UNCHANGED <<elections, next_ts, runs, invocation, other>>

\* handle_ballot_submission, src/app.py:708-709
SubmitVote == \E t \in Threads : VoteLookup(t, "ballot_modal", "get_vote_again")

\* handle_ballot_submission, src/app.py:712-714
SubmitVoteAgain ==
    \E t \in Threads :
        /\ At(t, "ballot_modal", "get_vote_again")
        /\ handlers' = [handlers EXCEPT ![t] =
               IF get_vote(elections, handlers[t].message_ts) = {}
               THEN Ended(@, "vote_not_active")
               ELSE [@ EXCEPT !.pc = "get_ballot"]]
        /\ UNCHANGED <<elections, ballot_table, next_ts, runs, invocation, other>>

\* handle_ballot_submission, src/app.py:717-733
SubmitBallot ==
    \E t \in Threads :
        /\ At(t, "ballot_modal", "get_ballot")
        /\ LET ballot == get_ballot(ballot_table, handlers[t].message_ts, handlers[t].user_id)
           IN  handlers' = [handlers EXCEPT ![t] =
                   IF ballot.exists /\ ballot.is_submitted
                   THEN Ended(@, "already_submitted")
                   ELSE [@ EXCEPT !.pc = "submit_ballot"]]
        /\ UNCHANGED <<elections, ballot_table, next_ts, runs, invocation, other>>

\* handle_ballot_submission, src/app.py:736-743
SubmitMark ==
    \E t \in Threads :
        /\ At(t, "ballot_modal", "submit_ballot")
        /\ ballot_table' = submit_ballot(ballot_table, handlers[t].message_ts,
               handlers[t].user_id)
        /\ handlers' = [handlers EXCEPT ![t] = Ended(@, "voted")]
        /\ UNCHANGED <<elections, next_ts, runs, invocation, other>>

\* handle_submit_rankings, src/app.py:487-496
RankingsSubmitted ==
    \E t \in Threads : SubmittedCheck(t, "submit_rankings", "get_active_election")

\* handle_submit_rankings, src/app.py:499-503: the rankings read at 499 are
\* not used; active_election["options"] is a TypeError when the channel
\* has no election row.
RankingsElection ==
    \E t \in Threads :
        /\ At(t, "submit_rankings", "get_active_election")
        /\ LET active_election == get_active_election(elections, handlers[t].channel_id)
           IN  handlers' = [handlers EXCEPT ![t] =
                   IF ~ active_election.exists
                   THEN Ended(@, "TypeError")
                   ELSE [@ EXCEPT !.pc = "submit_ballot"]]
        /\ UNCHANGED <<elections, ballot_table, next_ts, runs, invocation, other>>

\* handle_submit_rankings, src/app.py:506-513
RankingsMark ==
    \E t \in Threads :
        /\ At(t, "submit_rankings", "submit_ballot")
        /\ ballot_table' = submit_ballot(ballot_table, handlers[t].message_ts,
               handlers[t].user_id)
        /\ handlers' = [handlers EXCEPT ![t] = Ended(@, "voted")]
        /\ UNCHANGED <<elections, next_ts, runs, invocation, other>>

NextApp ==
    \/ Dispatch
    \/ StartVotingCheck
    \/ StartVotingPost
    \/ StartVotingStore
    \/ StopVotingElection
    \/ StopVotingBallots
    \/ StopVotingClose
    \/ ShowResultsElection
    \/ ShowResultsTally
    \/ CancelElection
    \/ CancelClose
    \/ SelectVote
    \/ SelectSubmitted
    \/ SelectRead
    \/ SelectWrite
    \/ ClearVote
    \/ ClearSubmitted
    \/ ClearDelete
    \/ SubmitVote
    \/ SubmitVoteAgain
    \/ SubmitBallot
    \/ SubmitMark
    \/ RankingsSubmitted
    \/ RankingsElection
    \/ RankingsMark

SpecApp == InitApp /\ [][NextApp]_vars

\* ------------------------------------------------------------ an open poll
\* The rankings a voter has stored: options appended one by one, none twice
\* (src/app.py:450-456); an empty list is never stored. One ranking of one
\* option and one of all.
StoredRankings == {<<"A">>, <<"B", "A">>}

\* What a voter has in the ballots table for the open poll: nothing, a
\* draft, or a submitted ballot.
OpenPollRows ==
    {NoBallotRow}
    \cup {[exists |-> TRUE, rankings |-> r, is_submitted |-> sub] :
            r \in StoredRankings, sub \in BOOLEAN}

\* What every voter has left there from the poll held before in the
\* channel: the ballot they submitted.
EarlierPollRow == [exists |-> TRUE, rankings |-> <<"B">>, is_submitted |-> TRUE]

\* A second poll (prompt ts 2) is open in the channel, the first one (ts 1)
\* is over and its row replaced; no handler is running.
InitVoting ==
    /\ elections = [ch \in Channels |->
                       [exists |-> TRUE, is_active |-> TRUE, message_ts |-> 2]]
    /\ \E open \in [Users -> OpenPollRows] :
          ballot_table = [key \in ElectionIds \X Users |->
                             IF key[1] = 2 THEN open[key[2]]
                             ELSE IF key[1] = 1 THEN EarlierPollRow
                             ELSE NoBallotRow]
    /\ handlers = [t \in Threads |-> Idle]
    /\ next_ts = 3
    /\ runs = MaxVotingRuns
    /\ rankings = <<>>
    /\ ballots = <<>>
    /\ rounds = <<>>
    /\ all_candidates = {}
    /\ counts = <<>>
    /\ total_votes = 0
    /\ eliminated = <<>>
    /\ winner = None
    /\ pc = "idle"
    /\ exit = "running"
    /\ other = NotCalled

SpecVoting == InitVoting /\ [][NextApp]_vars

\* ---------------------------------------------------- vocabulary of the claims
Terminated == pc \in {"returned", "raised"}

\* Candidates appearing anywhere in a list of ballots.
Appearing(bs) == {c \in Candidates : \E i \in DOMAIN bs : c \in Range(bs[i])}

NonEmptyBallots(bs) == {i \in DOMAIN bs : bs[i] # <<>>}

FirstChoiceVoters(bs, c) == {i \in NonEmptyBallots(bs) : Head(bs[i]) = c}

\* c is the first entry of strictly more than half of the non-empty ballots.
StrictMajority(bs, c) ==
    2 * Cardinality(FirstChoiceVoters(bs, c)) > Cardinality(NonEmptyBallots(bs))

\* The entries of a ballot that are not in gone, in their original order.
RECURSIVE Remaining(_, _)
Remaining(ballot, gone) ==
    IF ballot = <<>> THEN <<>>
    ELSE IF Head(ballot) \in gone
         THEN Remaining(Tail(ballot), gone)
         ELSE <<Head(ballot)>> \o Remaining(Tail(ballot), gone)

Occurrences(bs, b) == Cardinality({i \in DOMAIN bs : bs[i] = b})

\* Two lists of ballots are equal as multisets.
SameMultiset(bs1, bs2) ==
    \A b \in Range(bs1) \cup Range(bs2) : Occurrences(bs1, b) = Occurrences(bs2, b)

\* Candidates eliminated in rounds 1..k.
EliminatedUpTo(k) == UNION {eliminated[j] : j \in 1..k}

\* Fewest first-choice votes among the candidates still on some ballot.
Weakest(bs) ==
    {c \in Appearing(bs) :
        \A d \in Appearing(bs) :
            Cardinality(FirstChoiceVoters(bs, c)) <= Cardinality(FirstChoiceVoters(bs, d))}

\* First entries of the ballots as submitted.
SubmittedFirstChoices == {Head(rankings[i]) : i \in NonEmptyBallots(rankings)}

\* Position of candidate c on a ballot that ranks it.
RankOf(ballot, c) == CHOOSE k \in DOMAIN ballot : ballot[k] = c

\* The ballots that rank x above y (a candidate left off a ballot is below
\* every candidate on it).
Prefers(bs, x, y) ==
    {i \in DOMAIN bs :
        /\ x \in Range(bs[i])
        /\ y \in Range(bs[i]) => RankOf(bs[i], x) < RankOf(bs[i], y)}

\* x beats y in pairwise comparison over the ballots.
BeatsPairwise(bs, x, y) ==
    Cardinality(Prefers(bs, x, y)) > Cardinality(Prefers(bs, y, x))

\* c beats every other candidate of the ballots pairwise.
CondorcetWinner(bs, c) ==
    \A d \in AllCandidates(bs) \ {c} : BeatsPairwise(bs, c, d)

\* c has strictly more first choices than every other candidate.
PluralityLeader(bs, c) ==
    \A d \in AllCandidates(bs) \ {c} :
        Cardinality(FirstChoiceVoters(bs, c)) > Cardinality(FirstChoiceVoters(bs, d))

\* c has no more first choices than any other candidate.
FewestFirstChoices(bs, c) ==
    \A d \in AllCandidates(bs) :
        Cardinality(FirstChoiceVoters(bs, c)) <= Cardinality(FirstChoiceVoters(bs, d))

\* Every order of a list of ballots.
Reorderings(bs) ==
    {[i \in DOMAIN bs |-> bs[f[i]]] : f \in Permutations(DOMAIN bs)}

\* The ballots after the candidates with the fewest first choices are removed.
WithoutWeakest(bs) == [i \in DOMAIN bs |-> Remaining(bs[i], Weakest(bs))]

\* An instant-runoff count of these ballots stops here: nobody is left, or
\* a candidate holds a strict majority.
Decided(bs) ==
    NonEmptyBallots(bs) = {} \/ \E c \in Candidates : StrictMajority(bs, c)

\* The ballot lists, one per elimination round, of the instant-runoff count
\* of a ballot set taken by itself.
RECURSIVE AloneContents(_)
AloneContents(bs) ==
    IF Decided(bs) THEN <<>>
    ELSE CHOOSE trace \in {<<next>> \o AloneContents(next) :
                               next \in {WithoutWeakest(bs)}} : TRUE

\* How that count ends, final being the ballots after its last round.
AloneExit(rk, final) ==
    IF rk = <<>> THEN "no_ballots"
    ELSE IF \E c \in Candidates : StrictMajority(final, c) THEN "majority"
    ELSE IF \E i \in DOMAIN rk : rk[i] = <<>> THEN "IndexError"
    ELSE "tie_break"

\* Whom it can return.
AloneWinners(rk, final) ==
    IF AloneExit(rk, final) = "majority"
    THEN {c \in Candidates : StrictMajority(final, c)}
    ELSE IF AloneExit(rk, final) = "tie_break" THEN {Head(rk[i]) : i \in DOMAIN rk}
    ELSE {None}

\* A finished call (its input, exit, winner and trace) ended as the count
\* of its ballot set taken by itself ends.
AsAlone(rk, ex, w, trace) ==
    \E alone \in {AloneContents(rk)} :
        \E final \in {IF alone = <<>> THEN rk ELSE alone[Len(alone)]} :
            /\ ex = AloneExit(rk, final)
            /\ w \in AloneWinners(rk, final)
            /\ Len(trace) = Len(alone)
            /\ \A k \in DOMAIN trace : SameMultiset(trace[k], alone[k])

OtherTerminated == other.pc \in {"returned", "raised"}

TypeOK ==
    /\ pc \in {"call", "count", "decide", "returned", "raised"}
    /\ exit \in {"running", "no_ballots", "tie_break", "majority",
                 "IndexError", "infinite_loop"}
    /\ winner \in Candidates \cup {None}
    /\ Len(rounds) = Len(eliminated)

\* ------------------------------------------------------------------ claims

\* C1: for every non-empty ballot set the call ends by returning a winner
\* that appears in at least one input ballot.
C1_ReturnsInputCandidate ==
    (rankings # <<>> /\ Terminated) =>
        (pc = "returned" /\ winner \in Appearing(rankings))

\* C2: the round-ceiling error is the only error the call can raise; every
\* other ballot set (empty ballots, exhausted elections included) returns.
C2_OnlyCeilingRaises ==
    pc = "raised" => exit = "infinite_loop"

\* C3: a candidate who is the first entry of strictly more than half of the
\* non-empty input ballots is returned as winner with an empty round trace.
C3_FirstCountMajority ==
    \A c \in Candidates :
        (Terminated /\ StrictMajority(rankings, c)) =>
            (pc = "returned" /\ winner = c /\ rounds = <<>>)

\* 3 of 5 first choices for A, one each for B and C: A returned, no round.
C3_Witness ==
    /\ pc = "returned"
    /\ winner = "A"
    /\ rounds = <<>>
    /\ Cardinality(NonEmptyBallots(rankings)) = 5
    /\ Cardinality(FirstChoiceVoters(rankings, "A")) = 3
    /\ Cardinality(FirstChoiceVoters(rankings, "B")) = 1
    /\ Cardinality(FirstChoiceVoters(rankings, "C")) = 1

\* C4: in every iteration a candidate is declared winner exactly when twice
\* its first-choice count exceeds the number of currently non-empty ballots;
\* exactly half does not win and exhausted ballots are not in the total.
C4_ExactMajorityCheck ==
    [][(pc = "decide" /\ NonEmptyBallots(ballots) # {}) =>
            /\ total_votes = Cardinality(NonEmptyBallots(ballots))
            /\ \A c \in Candidates :
                  (pc' = "returned" /\ exit' = "majority" /\ winner' = c)
                      <=> StrictMajority(ballots, c)]_vars

\* A candidate with exactly half of the first count was not declared, and
\* wins a later count by 2 * count > non-empty ballots although it is the
\* first entry of no more than half of all ballots, exhausted ones included.
C4_Witness ==
    /\ pc = "returned"
    /\ exit = "majority"
    /\ Len(rounds) >= 1
    /\ 2 * Cardinality(FirstChoiceVoters(rankings, winner))
            = Cardinality(NonEmptyBallots(rankings))
    /\ Cardinality(NonEmptyBallots(ballots)) < Len(ballots)
    /\ 2 * Cardinality(FirstChoiceVoters(ballots, winner)) <= Len(ballots)

\* C5: an iteration with votes and no majority removes exactly the
\* candidates of the current universe whose first-choice count is the
\* minimum over the universe (zero counts included), and no other.
C5_EliminatesAllTiedForMinimum ==
    [][(/\ pc = "decide"
        /\ NonEmptyBallots(ballots) # {}
        /\ \A c \in Candidates : ~ StrictMajority(ballots, c)) =>
            /\ Len(rounds') = Len(rounds) + 1
            /\ Appearing(ballots) \ Appearing(ballots') = Weakest(ballots)
            /\ Appearing(ballots') = Appearing(ballots) \ Weakest(ballots)]_vars

\* A round removed two tied candidates at once and left a third standing.
C5_Witness ==
    /\ pc = "count"
    /\ Len(rounds) = 1
    /\ Cardinality(Appearing(rankings) \ Appearing(ballots)) = 2
    /\ Cardinality(Appearing(ballots)) = 1
    /\ \A c \in Appearing(rankings) : FirstChoiceVoters(rankings, c) # {}

\* C6: the k-th snapshot is, as a multiset, the input ballots with the
\* candidates eliminated in rounds 1..k removed and the other entries in
\* their original order; it has one entry per input ballot.
C6_SnapshotContent ==
    \A k \in 1..Len(rounds) :
        /\ Len(rounds[k]) = Len(rankings)
        /\ SameMultiset(rounds[k],
               [i \in DOMAIN rankings |-> Remaining(rankings[i], EliminatedUpTo(k))])

\* Two rounds recorded from ballots that all ranked someone: a ballot of
\* three entries lost its middle entry in round 1 and shows its first and
\* last entry, in that order, in the first snapshot; the second snapshot
\* holds exhausted ballots.
C6_Witness ==
    /\ Len(rounds) = 2
    /\ NonEmptyBallots(rankings) = DOMAIN rankings
    /\ \E i \in DOMAIN rankings :
          /\ Len(rankings[i]) = 3
          /\ rankings[i][2] \in eliminated[1]
          /\ \E j \in DOMAIN rounds[1] :
                rounds[1][j] = <<rankings[i][1], rankings[i][3]>>
    /\ \E j \in DOMAIN rounds[2] : rounds[2][j] = <<>>
    /\ rounds[1] # [i \in DOMAIN rankings |-> Remaining(rankings[i], eliminated[1])]

\* C7: a winner found by the majority check after k >= 1 rounds is the
\* first entry of strictly more than half of the non-empty ballots of the
\* last snapshot; if some candidate holds such a majority right after the
\* first elimination, exactly one round is recorded and it is the winner.
C7_MajorityAfterElimination ==
    /\ (exit = "majority" /\ Len(rounds) >= 1) =>
            StrictMajority(rounds[Len(rounds)], winner)
    /\ \A c \in Candidates :
          (Terminated /\ Len(rounds) >= 1 /\ StrictMajority(rounds[1], c)) =>
              (pc = "returned" /\ Len(rounds) = 1 /\ winner = c)

\* No majority in the first count, one round, then a candidate wins with
\* a vote transferred from an eliminated first choice.
C7_Witness ==
    /\ pc = "returned"
    /\ exit = "majority"
    /\ Len(rounds) = 1
    /\ Cardinality(FirstChoiceVoters(ballots, winner))
          > Cardinality(FirstChoiceVoters(rankings, winner))

\* C8: a winner returned by the exhaustion tie-break is a first entry of an
\* ORIGINAL ballot, never a candidate nobody ranked first; and when ballots
\* that all ranked someone have all been eliminated to empty, every such
\* first entry can be returned, whichever round eliminated it.
C8_TieBreakAmongSubmittedFirstChoices ==
    /\ exit = "tie_break" => winner \in SubmittedFirstChoices
    /\ (/\ pc = "decide"
        /\ NonEmptyBallots(ballots) = {}
        /\ NonEmptyBallots(rankings) = DOMAIN rankings) =>
            \A c \in SubmittedFirstChoices :
                ENABLED (TieBreak /\ pc' = "returned" /\ winner' = c)

\* The tie-break returned a candidate eliminated in round 1, one round
\* before the candidates that were tied at the end.
C8_Witness ==
    /\ pc = "returned"
    /\ exit = "tie_break"
    /\ Len(rounds) = 2
    /\ winner \in eliminated[1]
    /\ winner \notin eliminated[2]
    /\ \A i \in DOMAIN ballots : ballots[i] = <<>>

\* C9: for an empty ballot set the call returns None and an empty round
\* trace at once, without any count or elimination.
C9_EmptyBallotSet ==
    (rankings = <<>> /\ pc # "call") =>
        /\ pc = "returned"
        /\ exit = "no_ballots"
        /\ winner = None
        /\ rounds = <<>>
        /\ eliminated = <<>>
        /\ all_candidates = {}
        /\ total_votes = 0

\* The call on no ballots has returned.
C9_Witness ==
    /\ rankings = <<>>
    /\ pc = "returned"
    /\ winner = None

\* C10: the round trace grows by exactly one entry in exactly the steps
\* that eliminate candidates, so its length is the number of elimination
\* steps done so far; it is empty on return when the first count already
\* has a majority.
C10_OneSnapshotPerElimination ==
    [][/\ (pc # "call" /\ Appearing(ballots') # Appearing(ballots))
            <=> (Len(rounds') = Len(rounds) + 1)
       /\ Len(rounds') = Len(rounds) \/ Len(rounds') = Len(rounds) + 1
       /\ Len(rounds') = Len(eliminated')
       /\ (pc' = "returned" /\ \E c \in Candidates : StrictMajority(rankings, c))
            => rounds' = <<>>]_vars

\* A call that ended after two elimination steps, each removing other
\* candidates, with two snapshots recorded.
C10_Witness ==
    /\ Terminated
    /\ Len(rounds) = 2
    /\ Len(eliminated) = 2
    /\ eliminated[1] # {}
    /\ eliminated[2] # {}
    /\ eliminated[1] \cap eliminated[2] = {}
    /\ Appearing(ballots) = Appearing(rankings) \ (eliminated[1] \cup eliminated[2])

\* C11: the call never changes the caller's ballot set: no step of it, up
\* to and including the return or the raise, alters the rankings mapping or
\* any ballot list in it; the eliminations rewrite the working copy only.
C11_CallerBallotsUntouched ==
    [][rankings' = rankings]_vars

\* The call returned by the tie-break with every working ballot emptied,
\* while every ballot of the caller still holds what it held.
C11_Witness ==
    /\ pc = "returned"
    /\ exit = "tie_break"
    /\ Len(rounds) >= 1
    /\ \A i \in DOMAIN ballots : ballots[i] = <<>>
    /\ NonEmptyBallots(rankings) = DOMAIN rankings
    /\ \E i \in DOMAIN rankings : Len(rankings[i]) = 3

\* C13: an iteration whose count holds a strict-majority candidate returns
\* at once: it eliminates nobody and records no snapshot; and a candidate
\* returned by the majority check is in no elimination set.
C13_ReturnsAtFirstMajority ==
    [][/\ (pc = "decide" /\ \E c \in Candidates : StrictMajority(ballots, c)) =>
            /\ pc' = "returned"
            /\ exit' = "majority"
            /\ rounds' = rounds
            /\ ballots' = ballots
            /\ eliminated' = eliminated
       /\ exit' = "majority" =>
            \A k \in DOMAIN eliminated' : winner' \notin eliminated'[k]]_vars

\* A majority found in the count after round 1, which had eliminated two
\* other candidates: the working ballots are still those of the snapshot.
C13_Witness ==
    /\ pc = "returned"
    /\ exit = "majority"
    /\ Len(rounds) = 1
    /\ Cardinality(eliminated[1]) = 2
    /\ winner \notin eliminated[1]
    /\ SameMultiset(ballots, rounds[1])

\* C14: an elimination that puts more than 1000 rounds on record ends the
\* call with the 'infinite loop' error and no winner; one that leaves 1000
\* or fewer on record does not raise it, and the loop goes on.
C14_CeilingError ==
    [][/\ Len(rounds') > Len(rounds) =>
            /\ Len(rounds') > RoundCeiling =>
                  (pc' = "raised" /\ exit' = "infinite_loop" /\ winner' = None)
            /\ Len(rounds') <= RoundCeiling =>
                  (pc' = "count" /\ exit' = "running")
       /\ exit' = "infinite_loop" => Len(rounds') > RoundCeiling]_vars

\* The 1001st round was recorded and the call raised.
C14_Witness ==
    /\ pc = "raised"
    /\ exit = "infinite_loop"
    /\ Len(rounds) = RoundCeiling + 1
    /\ winner = None

\* C15: no ballot set trips the ceiling: the call never raises the
\* 'infinite loop' error and never has more than 1000 rounds on record,
\* however many options the ballots name.
C15_CeilingNeverTripped ==
    /\ exit # "infinite_loop"
    /\ Len(rounds) <= RoundCeiling

\* C16: for the ballots A,B,C (twice) and C,B,A (three times) the call
\* returns winner C with zero rounds, although B beats both A and C in
\* pairwise comparison over those ballots.
C16_CondorcetWinnerLoses ==
    (rankings = CondorcetElection /\ Terminated) =>
        /\ pc = "returned"
        /\ winner = "C"
        /\ rounds = <<>>
        /\ BeatsPairwise(rankings, "B", "A")
        /\ BeatsPairwise(rankings, "B", "C")

\* C16, amended: for those ballots the call returns winner C with zero
\* rounds; B beats A pairwise (3 ballots to 2) but loses to C (2 to 3), so
\* C, first on 3 of the 5 ballots, is itself the candidate who beats every
\* other pairwise.
C16_MajorityWinnerIsCondorcetWinner ==
    (rankings = CondorcetElection /\ Terminated) =>
        /\ pc = "returned"
        /\ winner = "C"
        /\ rounds = <<>>
        /\ Cardinality(Prefers(rankings, "B", "A")) = 3
        /\ Cardinality(Prefers(rankings, "A", "B")) = 2
        /\ Cardinality(Prefers(rankings, "B", "C")) = 2
        /\ Cardinality(Prefers(rankings, "C", "B")) = 3
        /\ CondorcetWinner(rankings, winner)

\* The call on those five ballots returned C from the first count.
C16_Witness ==
    /\ rankings = CondorcetElection
    /\ pc = "returned"
    /\ exit = "majority"
    /\ winner = "C"
    /\ counts = [c \in {"A", "B", "C"} |-> IF c = "A" THEN 2 ELSE IF c = "B" THEN 0 ELSE 3]

\* C17: whenever a round is recorded, a candidate with the fewest first
\* choices of the input is eliminated in round 1, also when it beats every
\* other candidate pairwise; for the 9 Burlington ballots (Wright 4, Kiss 3,
\* Montroll 2 first choices) Montroll, who beats both others pairwise, is
\* removed in the one round recorded, and the winner is Kiss, who has the
\* majority after the transfer, not Wright, who led the first count.
C17_Burlington ==
    /\ \A c \in AllCandidates(rankings) :
          (Len(eliminated) >= 1 /\ FewestFirstChoices(rankings, c)) =>
              c \in eliminated[1]
    /\ (rankings = BurlingtonElection /\ Terminated) =>
          /\ pc = "returned"
          /\ winner = "Kiss"
          /\ Len(rounds) = 1
          /\ eliminated = <<{"Montroll"}>>
          /\ SameMultiset(rounds[1],
                 [i \in 1..9 |-> IF i <= 4 THEN <<"Wright", "Kiss">>
                                           ELSE <<"Kiss", "Wright">>])
          /\ StrictMajority(rounds[1], "Kiss")
          /\ CondorcetWinner(rankings, "Montroll")
          /\ PluralityLeader(rankings, "Wright")

\* The call on the Burlington ballots returned Kiss after the round that
\* removed Montroll, with Montroll's two ballots counted for Kiss.
C17_Witness ==
    /\ rankings = BurlingtonElection
    /\ pc = "returned"
    /\ winner = "Kiss"
    /\ eliminated = <<{"Montroll"}>>
    /\ Cardinality(FirstChoiceVoters(rankings, "Kiss")) = 3
    /\ Cardinality(FirstChoiceVoters(ballots, "Kiss")) = 5
    /\ Cardinality(FirstChoiceVoters(rankings, "Wright")) = 4
    /\ Cardinality(FirstChoiceVoters(rankings, "Montroll")) = 2
    /\ BeatsPairwise(rankings, "Montroll", "Kiss")
    /\ BeatsPairwise(rankings, "Montroll", "Wright")

\* C12: two invocations on the same ballot set record snapshots that are,
\* round by round, the same multiset of rankings, and the same number of
\* rounds once both have ended, whatever was drawn; and every order of the
\* ballots left after an elimination can be the one recorded (looked at in
\* the loop states of one invocation while the other has yet to start).
C12_SameContentAnyOrder ==
    other.rankings = rankings =>
        /\ \A k \in DOMAIN rounds \cap DOMAIN other.rounds :
              SameMultiset(rounds[k], other.rounds[k])
        /\ (Terminated /\ OtherTerminated) => Len(rounds) = Len(other.rounds)
        /\ (pc = "decide" /\ ~ Decided(ballots) /\ other.pc = "call") =>
              \A order \in Reorderings(WithoutWeakest(ballots)) :
                  ENABLED (Eliminate /\ rounds' = Append(rounds, order))

\* Both invocations on one ballot set have returned; their first snapshots
\* hold the same two different ballots in different orders.
C12_Witness ==
    /\ other.rankings = rankings
    /\ pc = "returned"
    /\ other.pc = "returned"
    /\ Len(rounds) >= 1
    /\ rounds[1] # other.rounds[1]
    /\ SameMultiset(rounds[1], other.rounds[1])
    /\ \E i \in DOMAIN rounds[1] : rounds[1][i] # <<>>

\* C18: under every interleaving of the steps of two invocations each ends
\* as the count of its own ballot set taken by itself ends (exit, winner,
\* number of rounds, content of each snapshot), and no step of one changes
\* the ballots, trace or any other local of the other.
C18_IndependentInvocations ==
    [][/\ other' # other => UNCHANGED invocation
       /\ invocation' # invocation => other' = other
       /\ Terminated' => AsAlone(rankings', exit', winner', rounds')
       /\ OtherTerminated' =>
             AsAlone(other'.rankings, other'.exit, other'.winner, other'.rounds)]_vars

\* Both invocations are in their loops on different ballot sets, one about
\* to count again and one about to decide, each with its own first snapshot
\* on record and nothing of the other's.
C18_Witness ==
    /\ rankings # other.rankings
    /\ pc = "count"
    /\ other.pc = "decide"
    /\ Len(rounds) = 1
    /\ Len(other.rounds) = 1
    /\ Len(rounds[1]) = Len(rankings)
    /\ Len(other.rounds[1]) = Len(other.rankings)
    /\ Len(rankings) # Len(other.rankings)
    /\ eliminated[1] # other.eliminated[1]

\* Every row of the ballots table holds rankings without a repeated option.
StoredBallotsDeduplicated ==
    \A key \in DOMAIN ballot_table : NoDuplicates(ballot_table[key].rankings)

\* C19: after any sequence and any interleaving of select_option,
\* clear_ballot and ballot-submission runs no stored ballot holds an option
\* id twice; a select_option run that reads the user's stored ballot and
\* finds its option ranked there ends at that point and writes nothing.
C19_NoDuplicateOptionStored ==
    [][/\ StoredBallotsDeduplicated'
       /\ \A t \in Threads :
             (/\ At(t, "select_option", "get_user_ballot")
              /\ handlers[t].option \in
                     Range(get_user_ballot(ballot_table, handlers[t].message_ts,
                                           handlers[t].user_id))
              /\ handlers'[t] # handlers[t])
             => /\ ballot_table' = ballot_table
                /\ handlers'[t].pc = "done"]_vars

\* A user has ranked two options and a further selection of one of them
\* by that user has ended as already ranked.
C19_Witness ==
    \E t \in Threads :
        /\ handlers[t].kind = "select_option"
        /\ handlers[t].outcome = "already_ranked"
        /\ \E stored \in {ballot_table[<<handlers[t].message_ts, handlers[t].user_id>>]} :
              /\ stored.exists
              /\ Len(stored.rankings) = 2
              /\ handlers[t].option \in Range(stored.rankings)

\* C20: no step of a handle_show_results run changes the elections table
\* (is_active included) or any row of the ballots table (rankings and
\* submitted flag), whether the run ends without an active election,
\* without ballots, or with a tally.
C20_ShowResultsStoresNothing ==
    [][\A t \in Threads :
          (/\ handlers[t].kind = "show_results"
           /\ handlers[t].pc # "done"
           /\ handlers'[t] # handlers[t])
          => /\ elections' = elections
             /\ ballot_table' = ballot_table]_vars

\* A show_results run has posted a current leader; the election it read is
\* still active and the submitted ballot it counted is still stored.
C20_Witness ==
    \E t \in Threads :
        /\ handlers[t].kind = "show_results"
        /\ handlers[t].outcome = "current_leader"
        /\ handlers[t].result \in PollOptions
        /\ elections[handlers[t].channel_id].is_active
        /\ elections[handlers[t].channel_id].message_ts = handlers[t].message_ts
        /\ \E u \in Users :
              /\ ballot_table[<<handlers[t].message_ts, u>>].is_submitted
              /\ ballot_table[<<handlers[t].message_ts, u>>].rankings # <<>>

\* C27: every elimination removes at least one candidate found on a ballot,
\* so the universe the next iteration computes is a strict subset of the
\* one before, and the rounds on record never outnumber the distinct
\* candidates of the input ballots.
C27_UniverseStrictlyShrinks ==
    [][/\ Len(eliminated') = Len(eliminated) + 1
              => \E removed \in {eliminated'[Len(eliminated')]} :
                    /\ removed # {}
                    /\ removed \subseteq AllCandidates(ballots)
                    /\ AllCandidates(ballots') = AllCandidates(ballots) \ removed
       /\ (pc = "count" /\ pc' = "decide" /\ Len(rounds) >= 1)
              => /\ all_candidates' \subseteq all_candidates
                 /\ all_candidates' # all_candidates
       /\ Len(rounds') <= Cardinality(AllCandidates(rankings'))]_vars

\* Two rounds are on record for ballots with three candidates, each round
\* having removed candidates of its own, and the universe was computed
\* again after the second.
C27_Witness ==
    /\ pc = "decide"
    /\ Len(rounds) = 2
    /\ Cardinality(AllCandidates(rankings)) = 3
    /\ eliminated[1] # {}
    /\ eliminated[2] # {}
    /\ eliminated[1] \cap eliminated[2] = {}
    /\ all_candidates = AllCandidates(rankings) \ (eliminated[1] \cup eliminated[2])

\* The candidates on the submitted ballots whom nobody ranked first.
NobodysFirstChoice == AllCandidates(rankings) \ SubmittedFirstChoices

\* C28: a returned winner other than None, by majority in any round or by
\* the exhaustion tie-break, is the first entry of a submitted ballot; the
\* candidates nobody ranked first are all removed by the first elimination.
C28_WinnerWasAFirstChoice ==
    /\ (pc = "returned" /\ winner # None) => winner \in SubmittedFirstChoices
    /\ Len(eliminated) >= 1 => NobodysFirstChoice \subseteq eliminated[1]
    /\ Len(rounds) >= 1 => AllCandidates(ballots) \cap NobodysFirstChoice = {}

\* A winner was returned after two eliminations, the first of which removed
\* a candidate whom the submitted ballots rank but nobody put first.
C28_Witness ==
    /\ pc = "returned"
    /\ winner # None
    /\ Len(rounds) = 2
    /\ NobodysFirstChoice # {}
    /\ eliminated[1] = NobodysFirstChoice

\* C30: a result of the exhaustion tie-break comes with at least one round
\* on record, and the last snapshot holds one entry per input ballot, every
\* one of them empty.
C30_TieBreakAfterExhaustion ==
    (pc = "returned" /\ exit = "tie_break")
        => /\ Len(rounds) >= 1
           /\ Len(rounds[Len(rounds)]) = Len(rankings)
           /\ \A i \in DOMAIN rounds[Len(rounds)] : rounds[Len(rounds)][i] = <<>>

\* The tie-break returned a winner for four ballots exhausted over two
\* rounds.
C30_Witness ==
    /\ pc = "returned"
    /\ exit = "tie_break"
    /\ Len(rankings) = 4
    /\ Len(rounds) = 2
    /\ rounds[2] = <<<<>>, <<>>, <<>>, <<>>>>
    /\ \E i \in DOMAIN rounds[1] : rounds[1][i] # <<>>

\* The ballot sets small enough to tally in every order.
Reorderable(rk) ==
    /\ Len(rk) <= MaxReorderedBallots
    /\ \A i \in DOMAIN rk : Len(rk[i]) <= 2

\* C29: the winners the function can return are the same for every order
\* of the same ballots (tried on the ballot sets of up to
\* MaxReorderedBallots ballots of one or two options; the voter ids are
\* dropped with rankings.values() before anything is counted); no iteration
\* has two candidates pass the majority check; and a call that returns
\* otherwise than by the exhaustion tie-break returns the one winner the
\* function has for these ballots, whatever the shuffles drew.
C29_WinnerFunctionOfMultiset ==
    /\ (pc = "call" /\ Reorderable(rankings)) =>
          \E expected \in {IrvWinners(rankings, rankings)} :
              \A order \in Reorderings(rankings) :
                  IrvWinners(order, order) = expected
    /\ pc = "decide" =>
          Cardinality({c \in DOMAIN counts : IsMajority(counts[c], total_votes)}) <= 1
    /\ (pc = "returned" /\ exit # "tie_break") =>
          IrvWinners(rankings, rankings) = {winner}

\* A call on four ballots, three of them different, returned a winner by
\* majority after an elimination had been recorded in an order other than
\* the order of the input.
C29_Witness ==
    /\ pc = "returned"
    /\ exit = "majority"
    /\ Len(rankings) = 4
    /\ Cardinality(Range(rankings)) = 3
    /\ Len(rounds) = 1
    /\ rounds[1] # EliminateFromAll(rankings, eliminated[1])

\* C21: a row of the ballots table that is marked submitted is never
\* changed again: no step of a select_option or clear_ballot run (or of any
\* other run) rewrites its rankings, deletes it or resets its flag, however
\* the steps of the handlers interleave.
C21_SubmittedBallotImmutable ==
    [][\A key \in DOMAIN ballot_table :
          (ballot_table[key].exists /\ ballot_table[key].is_submitted)
              => ballot_table'[key] = ballot_table[key]]_vars

\* The ballots stored as submitted for the prompt ts, as user -> rankings.
SubmittedFor(ts) ==
    [u \in {v \in Users : /\ ballot_table[<<ts, v>>].exists
                          /\ ballot_table[<<ts, v>>].is_submitted}
        |-> ballot_table[<<ts, u>>].rankings]

\* C22: when a stop_voting run posts the final result and closes an election
\* that is active until then, every ballot marked submitted for it is in
\* the ballot set the run handed to the tally, however the submissions
\* interleave with the run.
C22_NoSubmittedBallotLostAtClose ==
    [][\A t \in Threads :
          (/\ At(t, "stop_voting", "calculate_irv_winner")
           /\ handlers'[t].outcome = "final_result"
           /\ elections[handlers[t].channel_id].is_active
           /\ elections[handlers[t].channel_id].message_ts = handlers[t].message_ts)
          => \A u \in DOMAIN SubmittedFor(handlers[t].message_ts) :
                /\ u \in DOMAIN handlers[t].session_ballots
                /\ handlers[t].session_ballots[u] = SubmittedFor(handlers[t].message_ts)[u]]_vars

\* C23: a stop_voting run that found the election of its channel active
\* leaves it inactive when it completes.
C23_StopVotingCloses ==
    [][\A t \in Threads :
          (/\ handlers[t].kind = "stop_voting"
           /\ handlers[t].pc # "done"
           /\ handlers'[t].pc = "done"
           /\ handlers'[t].outcome # "no_active_session")
          => ~ elections'[handlers[t].channel_id].is_active]_vars

\* C25: when a ballot_modal run posts the 'voted!' confirmation, the user's
\* ballot for the election is stored as submitted (is_ballot_submitted is
\* true and get_ballots returns it), also when the user ranked nothing.
C25_VotedMeansStoredSubmitted ==
    [][\A t \in Threads :
          (/\ At(t, "ballot_modal", "submit_ballot")
           /\ handlers'[t].outcome = "voted")
          => /\ is_ballot_submitted(ballot_table', handlers[t].message_ts,
                                    handlers[t].user_id)
             /\ handlers[t].user_id \in
                    DOMAIN get_ballots(ballot_table', handlers[t].message_ts)]_vars

\* C24: a start_voting run that finds an active election in its channel, or
\* whose form lacks the view state, the channel, the title or the options
\* or gives fewer than two options, ends there: no prompt is posted and no
\* row of either table changes.
C24_StartVotingRejected ==
    [][\A t \in Threads :
          (/\ At(t, "start_voting", "get_active_election")
           /\ handlers'[t] # handlers[t]
           /\ \/ handlers[t].form # "complete"
              \/ /\ elections[handlers[t].channel_id].exists
                 /\ elections[handlers[t].channel_id].is_active)
          => /\ handlers'[t].pc = "done"
             /\ handlers'[t].outcome \in {"rejected", "already_active"}
             /\ elections' = elections
             /\ ballot_table' = ballot_table
             /\ next_ts' = next_ts]_vars

\* With an election active in the channel, one start_voting run with a
\* complete form has ended as already active and one with a single option
\* as rejected; the election is the one that was stored first.
C24_Witness ==
    \E t1, t2 \in Threads :
        /\ handlers[t1].kind = "start_voting"
        /\ handlers[t1].outcome = "already_active"
        /\ handlers[t1].form = "complete"
        /\ handlers[t2].kind = "start_voting"
        /\ handlers[t2].outcome = "rejected"
        /\ handlers[t2].form = "one_option"
        /\ elections[handlers[t1].channel_id].is_active
        /\ elections[handlers[t1].channel_id].message_ts = 1
        /\ next_ts = 2

\* C26: the ballot set a stop_voting or show_results run reads for the
\* tally holds, for the message_ts of the election the run found active, one
\* ballot for exactly the users whose row is stored as submitted, with the
\* stored rankings: no draft and no row of another message_ts is in it; the
\* run reports no ballots only when no row is submitted, and the result it
\* posts is a tally of the set it read.
C26_TalliedAreTheSubmitted ==
    [][\A t \in Threads :
          /\ (/\ handlers[t].kind \in {"stop_voting", "show_results"}
              /\ handlers[t].pc = "get_ballots"
              /\ handlers'[t] # handlers[t])
             => IF handlers'[t].outcome = "no_ballots"
                THEN DOMAIN SubmittedFor(handlers[t].message_ts) = {}
                ELSE /\ handlers'[t].session_ballots
                            = SubmittedFor(handlers[t].message_ts)
                     /\ \A u \in Users :
                           LET row == ballot_table[<<handlers[t].message_ts, u>>]
                           IN  u \in DOMAIN handlers'[t].session_ballots
                                  <=> (row.exists /\ row.is_submitted)
          /\ (/\ handlers'[t].outcome \in {"final_result", "current_leader"}
              /\ handlers[t].outcome # handlers'[t].outcome)
             => handlers'[t].result \in TallyResults(handlers'[t].session_ballots)
       ]_vars

\* A run has posted a result tallied from the one submitted ballot of the
\* open poll while the other user holds a draft for it and both users have
\* submitted ballots with other rankings for the earlier poll.
C26_Witness ==
    \E t \in Threads :
        /\ handlers[t].outcome \in {"final_result", "current_leader"}
        /\ handlers[t].message_ts = 2
        /\ DOMAIN handlers[t].session_ballots = {"u1"}
        /\ handlers[t].session_ballots["u1"] = <<"A">>
        /\ handlers[t].result = "A"
        /\ ballot_table[<<2, "u2">>].exists
        /\ ~ ballot_table[<<2, "u2">>].is_submitted
        /\ ballot_table[<<2, "u2">>].rankings = <<"B", "A">>
        /\ \A u \in Users : ballot_table[<<1, u>>] = EarlierPollRow

\* C33: a cancel run that finds no active election in its channel ends with
\* nothing stored changed; one that finds an active election stores that
\* election's record with is_active false, tallies nothing and reports no
\* winner; no step of a cancel run changes a row of the ballots table or
\* posts a prompt.
C33_CancelOnlyCloses ==
    [][\A t \in Threads :
          /\ (At(t, "cancel", "get_active_election") /\ handlers'[t] # handlers[t])
             => /\ elections' = elections
                /\ ballot_table' = ballot_table
                /\ next_ts' = next_ts
                /\ LET stored == elections[handlers[t].channel_id]
                   IN  IF stored.exists /\ stored.is_active
                       THEN /\ handlers'[t].pc = "set_active_election"
                            /\ handlers'[t].active_election = stored
                       ELSE /\ handlers'[t].pc = "done"
                            /\ handlers'[t].outcome = "no_active_session"
          /\ (At(t, "cancel", "set_active_election") /\ handlers'[t] # handlers[t])
             => /\ elections' = [elections EXCEPT ![handlers[t].channel_id] =
                       [handlers[t].active_election EXCEPT !.is_active = FALSE]]
                /\ ~ elections'[handlers[t].channel_id].is_active
                /\ ballot_table' = ballot_table
                /\ next_ts' = next_ts
                /\ handlers'[t].pc = "done"
                /\ handlers'[t].outcome = "cancelled"
                /\ handlers'[t].result = Idle.result
                /\ handlers'[t].session_ballots = Idle.session_ballots
       ]_vars

\* One cancel run has closed the open poll, whose ballots (a submitted one
\* and a draft) are still stored, and a second cancel run has found no
\* active election.
C33_Witness ==
    \E t1, t2 \in Threads :
        /\ handlers[t1].kind = "cancel"
        /\ handlers[t1].outcome = "cancelled"
        /\ handlers[t2].kind = "cancel"
        /\ handlers[t2].outcome = "no_active_session"
        /\ \A ch \in Channels : /\ ~ elections[ch].is_active
                                /\ elections[ch].message_ts = 2
        /\ ballot_table[<<2, "u1">>].exists
        /\ ballot_table[<<2, "u1">>].is_submitted
        /\ ballot_table[<<2, "u2">>].exists
        /\ ~ ballot_table[<<2, "u2">>].is_submitted

\* C32: a start_voting run posts its prompt and stores its election only
\* while its channel has no active election, however start_voting runs for
\* the channel interleave: a second run is rejected as already active, so
\* the record of an active election (the one its posted prompt stands for)
\* is never replaced by another prompt's.
C32_OneStartWins ==
    [][\A t \in Threads :
          (/\ \/ At(t, "start_voting", "chat_postMessage")
              \/ At(t, "start_voting", "set_active_election")
           /\ handlers'[t] # handlers[t])
          => LET stored == elections[handlers[t].channel_id]
             IN  ~ (stored.exists /\ stored.is_active)]_vars

\* C31: no step changes a stored ballot (its existence, its rankings or
\* its submitted flag) of a posted prompt whose election is not active,
\* whichever handler runs and however the runs interleave with the close.
C31_ClosedElectionBallotsFrozen ==
    [][\A key \in DOMAIN ballot_table :
          (key[1] < next_ts /\ get_vote(elections, key[1]) = {})
              => ballot_table'[key] = ballot_table[key]]_vars
====
